---- MODULE Spec2Model ----
(***************************************************************************)
(* Server lifecycle and tool-invocation layer of the MCP Audit System      *)
(* (flask_app.py): ServerManager (start/stop/switch/status of worker       *)
(* processes, the current_server pointer) and MCPClient.call_tool.         *)
(*                                                                         *)
(* Spec      : every handler is one atomic action (one caller at a time).  *)
(* ConcSpec  : two request threads run start_server, stop_server,          *)
(*             switch_server, get_server_status and call_tool statement by *)
(*             statement (Flask runs with threaded=True and ServerManager  *)
(*             has no lock).                                               *)
(* StopSpec  : two request threads run stop_server from the state main     *)
(*             leaves, with weak fairness of the statements.               *)
(* PoolSpec  : the users of DatabaseManager.get_connection (server.py).    *)
(* WorkerSpec: the stdio loop of a worker (sample_mcp_server.py) fed with  *)
(*             request lines by a client.                                  *)
(* DbSpec    : the audit tools of server.py over the audits table.         *)
(***************************************************************************)
EXTENDS Integers, Sequences, FiniteSets, TLC

(* ---------------------------- bounds ----------------------------------- *)
\* number of worker processes spawned in one run
MaxSpawns == 2

(* ---------------------------- names ------------------------------------ *)
\* keys of the server_commands table built inside start_server
ServerCommandNames == {"SecureAudit", "SampleServer", "HttpAuditServer", "SSEAuditServer"}

\* server names callers pass in: three names of the command table and one
\* name that only a configuration file can introduce
Names == {"SecureAudit", "SampleServer", "HttpAuditServer", "CustomServer"}

\* the value of an absent current_server (Python None)
NoServer == "None"

\* shapes of one entry of config['servers']:
\*   absent : no such key            empty : {} (falsy)
\*   nohost : a dict without 'host' / 'port'
\*   full   : a dict with 'host' and 'port'
ConfigKinds == {"absent", "empty", "nohost", "full"}

\* marks a configuration file without the key 'default_server'
NoKey == "<no default_server key>"

\* contents of server_config.json that the runs start from
ConfigFiles ==
  { [readable |-> TRUE, default_server |-> "SecureAudit",
     servers |-> [n \in Names |->
        CASE n = "SecureAudit" -> "full"
          [] n = "SampleServer" -> "absent"
          [] n = "HttpAuditServer" -> "full"
          [] OTHER -> "full"]],
    [readable |-> TRUE, default_server |-> NoKey,
     servers |-> [n \in Names |->
        CASE n = "SecureAudit" -> "nohost"
          [] n = "SampleServer" -> "empty"
          [] n = "HttpAuditServer" -> "full"
          [] OTHER -> "absent"]],
    [readable |-> TRUE, default_server |-> NoKey,
     servers |-> [n \in Names |->
        CASE n = "HttpAuditServer" -> "full"
          [] OTHER -> "absent"]],
    [readable |-> FALSE, default_server |-> NoKey,
     servers |-> [n \in Names |-> "absent"]] }

(* ---------------------------- state ------------------------------------ *)
VARIABLES
  config,          \* ServerManager.config: [servers, default_server]
  active_servers,  \* ServerManager.active_servers: name -> pid of the Popen object, 0 = no entry
  current_server,  \* ServerManager.current_server
  procs,           \* the OS processes spawned so far; the pid is the index
  last,            \* the last call that returned and what it returned
  prev,            \* history: <<op, name, ok>> of the call that returned before
                   \* it, kept when that call was a successful start_server
  awaitingSwitch,  \* history: the active worker was stopped and no switch has succeeded since
  pc, t_name, t_proc, t_res,  \* request threads of ConcSpec
  t_op,            \* request threads: the method the thread is running
  w_in,            \* worker: the lines written to its stdin and not yet read
  w_pc,            \* worker: where run_stdio is: "input", "handle" or "exit"
  w_line,          \* worker: the line read by input() that is being handled
  w_out,           \* worker: the response envelopes printed to its stdout
  w_log,           \* history: every line read so far with the response it got
  audits,          \* server.py: the rows of the table audits
  autoinc,         \* server.py: the last rowid the AUTOINCREMENT key has given out
  db_last,         \* the last audit tool call that returned and what it returned
  db_created,      \* history: the audits as create_audit returned them
  db_touched,      \* history: the ids update_audit or delete_audit has changed
  connection_pool, \* DatabaseManager.connection_pool: the idle connections
  holds,           \* user -> the connection its get_connection context holds, 0 = none
  closed,          \* the connections that have been closed
  conn_seq,        \* the number of connections sqlite3.connect has made
  p_last           \* history: the last entry or exit of a get_connection context

workerVars == <<w_in, w_pc, w_line, w_out, w_log>>
dbVars == <<audits, autoinc, db_last, db_created, db_touched>>
managerVars == <<config, active_servers, current_server, procs, last, prev, awaitingSwitch>>
threadVars == <<pc, t_name, t_proc, t_res, t_op>>
poolVars == <<connection_pool, holds, closed, conn_seq, p_last>>

vars == <<config, active_servers, current_server, procs, last, prev, awaitingSwitch,
          pc, t_name, t_proc, t_res, t_op, workerVars, dbVars, poolVars>>

Threads == {1, 2}

(* ---------------------------- configuration ---------------------------- *)
\* ServerManager._load_config: the parsed file, or the fallback on any error
load_config(file) ==
  IF file.readable
    THEN [servers |-> file.servers, default_server |-> file.default_server]
    ELSE [servers |-> [n \in Names |-> "absent"], default_server |-> "SecureAudit"]

\* self.config.get('default_server', 'SecureAudit')
default_server(cfg) ==
  IF cfg.default_server = NoKey THEN "SecureAudit" ELSE cfg.default_server

\* variant: a lookup that falls back to a default entry instead of None
get_server_config_Default(name) ==
  IF config.servers[name] = "absent" THEN "full" ELSE config.servers[name]

\* ServerManager.get_server_config: the entry, or None
get_server_config(name) == config.servers[name]

\* variant: switch_server without its membership test
Configured_Always(name) == TRUE

\* "server_name in self.config.get('servers', {})"
Configured(name) == config.servers[name] # "absent"

(* ---------------------------- processes -------------------------------- *)
\* process.poll() of a process that has not exited (Python None), written
\* 256, a value no exit status takes
NoCode == 256

\* exit statuses of a worker that ends on its own
ExitCodes == {1}

\* Popen.returncode of a process ended by terminate() and by kill()
SIGTERM == -15
SIGKILL == -9

\* process.poll() is None
Alive(pid) == procs[pid].state = "alive"

\* subprocess.Popen(cmd, ...) succeeded: a new process, the pid is its index
Popen(ps, name) == Append(ps, [name |-> name, state |-> "alive", code |-> NoCode])

\* the worker process ends with exit status code (terminate/kill followed
\* by wait, or on its own); a process that has ended keeps its status
Exited(ps, pid, code) ==
  IF ps[pid].state = "alive"
    THEN [ps EXCEPT ![pid] = [name |-> ps[pid].name, state |-> "exited", code |-> code]]
    ELSE ps

(* ---------------------------- get_server_status ------------------------ *)
\* variant: the entry of an ended process is reported but not deleted
get_server_status_NoReap(as, name) ==
  IF as[name] # 0
    THEN IF Alive(as[name])
           THEN [running |-> TRUE, pid |-> as[name], exit_code |-> NoCode, active |-> as]
           ELSE [running |-> FALSE, pid |-> 0, exit_code |-> procs[as[name]].code,
                 active |-> as]
    ELSE [running |-> FALSE, pid |-> 0, exit_code |-> NoCode, active |-> as]

\* ServerManager.get_server_status on the registry `as`: the status returned
\* and the registry it leaves (a dead entry is deleted)
get_server_status(as, name) ==
  IF as[name] # 0
    THEN IF Alive(as[name])
           THEN [running |-> TRUE, pid |-> as[name], exit_code |-> NoCode, active |-> as]
           ELSE [running |-> FALSE, pid |-> 0, exit_code |-> procs[as[name]].code,
                 active |-> [as EXCEPT ![name] = 0]]
    ELSE [running |-> FALSE, pid |-> 0, exit_code |-> NoCode, active |-> as]

(* ---------------------------- start_server ----------------------------- *)
\* variant: the liveness test of the registered entry is inverted
AlreadyRunning_Inverted(as, name) == as[name] # 0 /\ ~get_server_status(as, name).running

\* variant: the registered entry is taken as running without polling it
AlreadyRunning_EntryOnly(as, name) == as[name] # 0

\* lines 169-171: "if server_name in self.active_servers" and then
\* "if status['running']"
AlreadyRunning(as, name) == as[name] # 0 /\ get_server_status(as, name).running

\* variant: the registry start_server leaves when Popen raises is the one
\* it was called on, the entry of an ended process included
start_server_KeepsStale(as, name, popen) ==
  LET st   == get_server_status(as, name)
      as1  == IF as[name] # 0 THEN st.active ELSE as
      cfg  == get_server_config(name)
      fail(m, a) == [ok |-> FALSE, msg |-> m, pid |-> 0, active |-> a, procs |-> procs]
  IN  IF AlreadyRunning(as, name)
        THEN fail("already_running", as1)
      ELSE IF cfg \in {"absent", "empty"}
        THEN fail("not_in_configuration", as1)
      ELSE IF cfg = "nohost"
        THEN fail("KeyError", as1)
      ELSE IF name \notin ServerCommandNames
        THEN fail("unknown_server", as1)
      ELSE IF popen # "ok"
        THEN fail("OSError", as)
      ELSE [ok |-> TRUE, msg |-> "started", pid |-> Len(procs) + 1,
            active |-> [as1 EXCEPT ![name] = Len(procs) + 1],
            procs |-> Popen(procs, name)]

\* ServerManager.start_server on registry `as`; popen is the outcome of the
\* Popen call, should it be reached ("ok" or "OSError")
start_server(as, name, popen) ==
  LET st   == get_server_status(as, name)
      as1  == IF as[name] # 0 THEN st.active ELSE as
      cfg  == get_server_config(name)
      fail(m, a) == [ok |-> FALSE, msg |-> m, pid |-> 0, active |-> a, procs |-> procs]
  IN  IF AlreadyRunning(as, name)
        THEN fail("already_running", as1)
      ELSE IF cfg \in {"absent", "empty"}
        THEN fail("not_in_configuration", as1)
      ELSE IF cfg = "nohost"
        \* the whole server_commands table is built first and reads
        \* config['host'] and config['port'] whatever the name is
        THEN fail("KeyError", as1)
      ELSE IF name \notin ServerCommandNames
        THEN fail("unknown_server", as1)
      ELSE IF popen # "ok"
        THEN fail("OSError", as1)
      ELSE [ok |-> TRUE, msg |-> "started", pid |-> Len(procs) + 1,
            active |-> [as1 EXCEPT ![name] = Len(procs) + 1],
            procs |-> Popen(procs, name)]

\* the manager's handlers run on one caller; they never touch the pipes of
\* a worker (no statement of flask_app.py reads or writes process.stdin or
\* process.stdout) nor the audit database
ThreadsIdle == UNCHANGED <<pc, t_name, t_proc, t_res, t_op, workerVars, dbVars, poolVars>>

\* bookkeeping of a call that returns: what it returned, and whether the
\* call before it was a successful start_server
Returns(r) ==
  /\ last' = r
  /\ prev' = IF last.op = "start" /\ last.ok
              THEN <<last.op, last.name, last.ok>>
              ELSE <<"other", NoServer, TRUE>>

Result(op, name, ok, msg, cause, pid) ==
  [op |-> op, name |-> name, ok |-> ok, msg |-> msg, cause |-> cause, pid |-> pid,
   exit_code |-> NoCode]

StartServer(name) ==
  \E popen \in {"ok", "OSError"} :
    LET r == start_server(active_servers, name, popen) IN
      /\ Len(r.procs) <= MaxSpawns
      /\ active_servers' = r.active
      /\ procs' = r.procs
      /\ Returns(Result("start", name, r.ok, r.msg, "", r.pid))
      /\ UNCHANGED <<config, current_server, awaitingSwitch>>
      /\ ThreadsIdle

(* ---------------------------- stop_server ------------------------------ *)
\* variant: on TimeoutExpired the entry is deleted without kill() and wait()
StopServer_NoKill(name) ==
  IF active_servers[name] = 0
    THEN /\ Returns(Result("stop", name, FALSE, "not_running", "", 0))
         /\ UNCHANGED <<config, active_servers, current_server, procs, awaitingSwitch>>
         /\ ThreadsIdle
    ELSE \E path \in {"graceful", "forced", "error"} :
           LET pid == active_servers[name] IN
           /\ path = "forced" => Alive(pid)
           /\ IF path = "error"
                THEN /\ Returns(Result("stop", name, FALSE, "failed_to_stop", "OSError", pid))
                     /\ UNCHANGED <<active_servers, procs, awaitingSwitch>>
                ELSE /\ procs' = IF path = "forced" THEN procs ELSE Exited(procs, pid, SIGTERM)
                     /\ active_servers' = [active_servers EXCEPT ![name] = 0]
                     /\ Returns(Result("stop", name, TRUE, "stopped", path, pid))
                     /\ awaitingSwitch' = (awaitingSwitch \/ name = current_server)
           /\ UNCHANGED <<config, current_server>>
           /\ ThreadsIdle

\* variant: a successful stop of the worker current_server names clears
\* current_server
StopServer_ClearsPointer(name) ==
  IF active_servers[name] = 0
    THEN /\ Returns(Result("stop", name, FALSE, "not_running", "", 0))
         /\ UNCHANGED <<config, active_servers, current_server, procs, awaitingSwitch>>
         /\ ThreadsIdle
    ELSE \E path \in {"graceful", "forced", "error"} :
           LET pid == active_servers[name] IN
           /\ path = "forced" => Alive(pid)
           /\ IF path = "error"
                THEN /\ Returns(Result("stop", name, FALSE, "failed_to_stop", "OSError", pid))
                     /\ UNCHANGED <<active_servers, current_server, procs, awaitingSwitch>>
                ELSE /\ procs' = Exited(procs, pid, IF path = "forced" THEN SIGKILL ELSE SIGTERM)
                     /\ active_servers' = [active_servers EXCEPT ![name] = 0]
                     /\ current_server' = IF name = current_server THEN NoServer
                                          ELSE current_server
                     /\ Returns(Result("stop", name, TRUE, "stopped", path, pid))
                     /\ awaitingSwitch' = (awaitingSwitch \/ name = current_server)
           /\ UNCHANGED config
           /\ ThreadsIdle

\* ServerManager.stop_server; path is how the termination went:
\*   graceful : the process is gone within the 5 s of wait(timeout=5)
\*   forced   : TimeoutExpired, then kill() and wait()
\*   error    : terminate() raised, the except branch returns failure
StopServer(name) ==
  IF active_servers[name] = 0
    THEN /\ Returns(Result("stop", name, FALSE, "not_running", "", 0))
         /\ UNCHANGED <<config, active_servers, current_server, procs, awaitingSwitch>>
         /\ ThreadsIdle
    ELSE \E path \in {"graceful", "forced", "error"} :
           LET pid == active_servers[name] IN
           /\ path = "forced" => Alive(pid)
           /\ IF path = "error"
                THEN /\ Returns(Result("stop", name, FALSE, "failed_to_stop", "OSError", pid))
                     /\ UNCHANGED <<active_servers, procs, awaitingSwitch>>
                ELSE /\ procs' = Exited(procs, pid, IF path = "forced" THEN SIGKILL ELSE SIGTERM)
                     /\ active_servers' = [active_servers EXCEPT ![name] = 0]
                     /\ Returns(Result("stop", name, TRUE, "stopped", path, pid))
                     /\ awaitingSwitch' = (awaitingSwitch \/ name = current_server)
           /\ UNCHANGED <<config, current_server>>
           /\ ThreadsIdle

(* ---------------------------- switch_server ---------------------------- *)
\* variant: current_server is assigned before the implicit start is tried
switch_server_AssignsFirst(name, popen) ==
  LET r == start_server(active_servers, name, popen) IN
    IF ~Configured(name)
      THEN [ok |-> FALSE, msg |-> "not_found", cause |-> "", pid |-> 0,
            current |-> current_server, active |-> active_servers, procs |-> procs]
    ELSE IF active_servers[name] = 0 /\ ~r.ok
      THEN [ok |-> FALSE, msg |-> "failed_to_start", cause |-> r.msg, pid |-> 0,
            current |-> name, active |-> r.active, procs |-> r.procs]
    ELSE IF active_servers[name] = 0
      THEN [ok |-> TRUE, msg |-> "switched", cause |-> "", pid |-> r.pid,
            current |-> name, active |-> r.active, procs |-> r.procs]
    ELSE [ok |-> TRUE, msg |-> "switched", cause |-> "", pid |-> active_servers[name],
          current |-> name, active |-> active_servers, procs |-> procs]

\* ServerManager.switch_server as a function of the state: what it returns
\* and the current_server, active_servers and processes it leaves; popen is
\* the outcome of the Popen call of the implicit start, should it be reached
switch_server(name, popen) ==
  LET r == start_server(active_servers, name, popen) IN
    IF ~Configured(name)
      THEN [ok |-> FALSE, msg |-> "not_found", cause |-> "", pid |-> 0,
            current |-> current_server, active |-> active_servers, procs |-> procs]
    ELSE IF active_servers[name] = 0 /\ ~r.ok
      THEN [ok |-> FALSE, msg |-> "failed_to_start", cause |-> r.msg, pid |-> 0,
            current |-> current_server, active |-> r.active, procs |-> r.procs]
    ELSE IF active_servers[name] = 0
      THEN [ok |-> TRUE, msg |-> "switched", cause |-> "", pid |-> r.pid,
            current |-> name, active |-> r.active, procs |-> r.procs]
    ELSE [ok |-> TRUE, msg |-> "switched", cause |-> "", pid |-> active_servers[name],
          current |-> name, active |-> active_servers, procs |-> procs]

SwitchServer(name) ==
  \E popen \in {"ok", "OSError"} :
    LET r == switch_server(name, popen) IN
      /\ Len(r.procs) <= MaxSpawns
      /\ current_server' = r.current
      /\ active_servers' = r.active
      /\ procs' = r.procs
      /\ awaitingSwitch' = (awaitingSwitch /\ ~r.ok)
      /\ Returns(Result("switch", name, r.ok, r.msg, r.cause, r.pid))
      /\ UNCHANGED config
      /\ ThreadsIdle

(* ---------------------------- status queries --------------------------- *)
GetServerStatus(name) ==
  LET st == get_server_status(active_servers, name) IN
    /\ active_servers' = st.active
    /\ Returns([Result("status", name, st.running,
                        IF st.running THEN "running" ELSE "not_running", "", st.pid)
                   EXCEPT !.exit_code = st.exit_code])
    /\ UNCHANGED <<config, current_server, procs, awaitingSwitch>>
    /\ ThreadsIdle

\* variant: the configured servers are listed without querying their status
ListServers_PureRead ==
  /\ Returns(Result("list", NoServer, TRUE, "listed", "", 0))
  /\ UNCHANGED <<config, active_servers, current_server, procs, awaitingSwitch>>
  /\ ThreadsIdle

\* ServerManager.list_servers: get_server_status of every configured name
ListServers ==
  /\ active_servers' =
       [n \in Names |-> IF Configured(n) THEN get_server_status(active_servers, n).active[n]
                        ELSE active_servers[n]]
  /\ Returns(Result("list", NoServer, TRUE, "listed", "", 0))
  /\ UNCHANGED <<config, current_server, procs, awaitingSwitch>>
  /\ ThreadsIdle

(* ---------------------------- call_tool -------------------------------- *)
\* the "id" of the request the temporary script prints
RequestId == 1

\* variant: the precondition check goes through get_server_status and
\* so deletes the entry of an ended worker
CallTool_Reaps ==
  \E run \in {"exit0", "nonzero", "timeout", "exception"} :
    /\ IF current_server \notin Names \/ active_servers[current_server] = 0
         THEN /\ Returns(Result("call_tool", current_server, FALSE, "not_running", "", 0))
              /\ UNCHANGED active_servers
         ELSE /\ Returns(Result("call_tool", current_server, run = "exit0",
                                CASE run = "exit0" -> "called_successfully"
                                  [] run = "nonzero" -> "tool_execution_failed"
                                  [] run = "timeout" -> "timed_out"
                                  [] OTHER -> "exception",
                                "", active_servers[current_server]))
              /\ active_servers' = get_server_status(active_servers, current_server).active
    /\ UNCHANGED <<config, current_server, procs, awaitingSwitch>>
    /\ ThreadsIdle

\* MCPClient.call_tool; run is the outcome of subprocess.run on the
\* temporary script: exit status 0, another exit status, TimeoutExpired
\* after 30 s, or another exception (OSError).  The script prints the
\* request to its own stdout; nothing is sent to the worker.
CallTool ==
  \E run \in {"exit0", "nonzero", "timeout", "exception"} :
    /\ IF current_server \notin Names \/ active_servers[current_server] = 0
         THEN Returns(Result("call_tool", current_server, FALSE, "not_running", "", 0))
         ELSE Returns(Result("call_tool", current_server, run = "exit0",
                             CASE run = "exit0" -> "called_successfully"
                               [] run = "nonzero" -> "tool_execution_failed"
                               [] run = "timeout" -> "timed_out"
                               [] OTHER -> "exception",
                             "", active_servers[current_server]))
    /\ UNCHANGED <<config, active_servers, current_server, procs, awaitingSwitch>>
    /\ ThreadsIdle

(* ---------------------------- environment ------------------------------ *)
\* a worker process exits on its own, outside the manager's control
ProcessExit(pid) ==
  /\ pid \in 1..Len(procs)
  /\ Alive(pid)
  /\ \E code \in ExitCodes : procs' = Exited(procs, pid, code)
  /\ UNCHANGED <<config, active_servers, current_server, last, prev, awaitingSwitch>>
  /\ ThreadsIdle

(* ---------------------------- worker stdio loop ------------------------ *)
\* number of lines a client writes to the worker's stdin
MaxLines == 2

\* request.get('id') of a request without the key (None, JSON null),
\* written 0
NoId == 0

\* the 'id' of a response that has no such key, written -1
Missing == -1

\* correlation tokens the client uses
RequestIds == {1, 2, NoId}

\* shapes of request['params'] of a tools/call request:
\*   echo         : {"name": "echo", "arguments": {"message": "hi"}}
\*   unknown_tool : {"name": "nope", "arguments": {}}
\*   bad_args     : {"name": "echo", "arguments": {"text": "hi"}}
\*   null         : "params": null
\*   clash        : {"name": "echo", "arguments": {"tool_name": "x"}}
ParamShapes == {"echo", "unknown_tool", "bad_args", "null", "clash"}

\* the lines a client writes: an empty line, text that is not JSON, JSON
\* that is not an object, and request objects
RequestLines ==
  [kind : {"empty", "invalid_json", "non_object"}, id : {NoId}, method : {""}, params : {""}]
  \cup [kind : {"object"}, id : RequestIds, method : {"tools/call"}, params : ParamShapes]
  \cup [kind : {"object"}, id : RequestIds, method : {"initialize", "bogus"}, params : {""}]

NoLine == [kind |-> "none", id |-> NoId, method |-> "", params |-> ""]

Envelope(id, kind, type, body) ==
  [id |-> id, kind |-> kind, payload |-> [type |-> type, body |-> body]]

NoResponse == Envelope(Missing, "none", "", {})

\* SimpleMCPServer.get_capabilities: the keys of the descriptor
get_capabilities == {"tools", "resources", "prompts", "server_info"}

\* SimpleMCPServer.handle_tool_call: the result of a tool call; an
\* exception of the tool is caught and reported inside the result
handle_tool_call(params) ==
  CASE params = "echo" -> [type |-> "echoed_message", body |-> {"hi"}]
    [] params = "bad_args" -> [type |-> "tool_error", body |-> {}]
    [] OTHER -> [type |-> "unknown_tool", body |-> {"echo"}]

\* one iteration of run_stdio on a non-empty line: the envelope printed
handle_line(line) ==
  IF line.kind = "invalid_json"
    THEN Envelope(Missing, "error", "Invalid JSON", {})
  ELSE IF line.kind = "non_object"
    \* request.get raises AttributeError: the handler of line 155
    THEN Envelope(Missing, "error", "exception", {})
  ELSE IF line.method = "tools/call"
    THEN IF line.params \in {"null", "clash"}
           \* params.get raises AttributeError, handle_tool_call(tool_name,
           \* **{'tool_name': ..}) raises TypeError: the handler of line 155
           THEN Envelope(Missing, "error", "exception", {})
           ELSE [id |-> line.id, kind |-> "result", payload |-> handle_tool_call(line.params)]
  ELSE IF line.method = "initialize"
    THEN Envelope(line.id, "result", "capabilities", get_capabilities)
  ELSE Envelope(line.id, "error", "Unknown method", {})

ManagerIdle == UNCHANGED <<managerVars, threadVars, dbVars, poolVars>>

\* the client writes one more line to the worker's stdin
W_Send(line) ==
  /\ w_pc # "exit"
  /\ Len(w_in) + Len(w_log) + (IF w_pc = "handle" THEN 1 ELSE 0) < MaxLines
  /\ w_in' = Append(w_in, line)
  /\ UNCHANGED <<w_pc, w_line, w_out, w_log>>
  /\ ManagerIdle

\* lines 106-108: input() returns a line; an empty line is skipped
W_Input ==
  /\ w_pc = "input"
  /\ w_in # <<>>
  /\ w_in' = Tail(w_in)
  /\ IF Head(w_in).kind = "empty"
       THEN /\ w_log' = Append(w_log, [line |-> Head(w_in), response |-> NoResponse])
            /\ UNCHANGED <<w_pc, w_line>>
       ELSE /\ w_pc' = "handle"
            /\ w_line' = Head(w_in)
            /\ UNCHANGED w_log
  /\ UNCHANGED w_out
  /\ ManagerIdle

\* lines 110-160: the line is parsed and answered with one print
W_Handle ==
  /\ w_pc = "handle"
  /\ w_out' = Append(w_out, handle_line(w_line))
  /\ w_log' = Append(w_log, [line |-> w_line, response |-> handle_line(w_line)])
  /\ w_pc' = "input"
  /\ w_line' = NoLine
  /\ UNCHANGED w_in
  /\ ManagerIdle

\* lines 151-152: the client closes the pipe, input() raises EOFError
W_EOF ==
  /\ w_pc = "input"
  /\ w_in = <<>>
  /\ w_pc' = "exit"
  /\ UNCHANGED <<w_in, w_line, w_out, w_log>>
  /\ ManagerIdle

WorkerNext ==
  \/ \E line \in RequestLines : W_Send(line)
  \/ W_Input
  \/ W_Handle
  \/ W_EOF

(* ---------------------------- audit database -------------------------- *)
\* number of audits created in one run
MaxAudits == 2

\* AuditStatus: the values of the enumeration
AuditStatusValues == {"open", "in_progress", "completed", "closed", "cancelled"}

\* a Python None passed where a string is expected
None == "<None>"

\* datetime.now().date().isoformat(), the default of the argument date
Today == "<today>"

\* the arguments create_audit is called with
CreateArgs ==
  [title : {"T1", None}, description : {"D1"}, date : {"", "2025-01-01"},
   status : {"closed", "bogus"}, assigned_auditor : {"A1"}]

\* the arguments **updates of update_audit: one field, or nothing
UpdateArgs ==
  { [field |-> "status", value |-> "in_progress"],
    [field |-> "title", value |-> "T2"],
    [field |-> "priority", value |-> "high"],
    [field |-> "", value |-> ""] }

\* the columns update_audit accepts
UpdatableFields == {"title", "description", "date", "status", "assigned_auditor"}

\* the ids callers ask for
AuditIds == 1..(MaxAudits + 1)

NoAudit ==
  [id |-> 0, title |-> "", description |-> "", date |-> "", status |-> "",
   assigned_auditor |-> ""]

\* SELECT * FROM audits WHERE id = ?
Rows(table, audit_id) == {row \in table : row.id = audit_id}

\* variant: the SELECT has lost its WHERE clause
db_get_audit_NoWhere(table, audit_id) ==
  IF table = {} THEN NoAudit
  ELSE CHOOSE row \in table : \A other \in table : row.id <= other.id

\* DatabaseManager.get_audit: the audit of the row found, or none
db_get_audit(table, audit_id) ==
  IF Rows(table, audit_id) = {} THEN NoAudit
  ELSE CHOOSE row \in Rows(table, audit_id) : TRUE

\* the Audit object the tool create_audit builds from its arguments:
\* an invalid status becomes 'open', an empty date becomes today
new_audit(args) ==
  [id |-> 0, title |-> args.title, description |-> args.description,
   date |-> IF args.date = "" THEN Today ELSE args.date,
   status |-> IF args.status \in AuditStatusValues THEN args.status ELSE "open",
   assigned_auditor |-> args.assigned_auditor]

\* DatabaseManager.create_audit: the INSERT gives the row the next rowid
db_create_audit(table, seq, audit) == table \cup {[audit EXCEPT !.id = seq + 1]}

\* DatabaseManager.update_audit: UPDATE audits SET field = value WHERE id = ?
db_update_audit(table, audit_id, upd) ==
  { IF row.id = audit_id
      THEN CASE upd.field = "title" -> [row EXCEPT !.title = upd.value]
             [] upd.field = "description" -> [row EXCEPT !.description = upd.value]
             [] upd.field = "date" -> [row EXCEPT !.date = upd.value]
             [] upd.field = "status" -> [row EXCEPT !.status = upd.value]
             [] upd.field = "assigned_auditor" -> [row EXCEPT !.assigned_auditor = upd.value]
             [] OTHER -> row
      ELSE row : row \in table }

\* DatabaseManager.delete_audit: DELETE FROM audits WHERE id = ?
db_delete_audit(table, audit_id) == {row \in table : row.id # audit_id}

DbResult(op, ok, audit_id, audit) ==
  [op |-> op, ok |-> ok, audit_id |-> audit_id, audit |-> audit]

DbIdle == UNCHANGED <<managerVars, threadVars, workerVars, poolVars>>

\* the tool create_audit; a title of None violates NOT NULL and the
\* exception is reported as a failure
CreateAudit(args) ==
  /\ autoinc < MaxAudits
  /\ IF args.title = None
       THEN /\ db_last' = DbResult("create_audit", FALSE, 0, NoAudit)
            /\ UNCHANGED <<audits, autoinc, db_created, db_touched>>
       ELSE LET audit == [new_audit(args) EXCEPT !.id = autoinc + 1] IN
            /\ audits' = db_create_audit(audits, autoinc, new_audit(args))
            /\ autoinc' = autoinc + 1
            /\ db_last' = DbResult("create_audit", TRUE, autoinc + 1, audit)
            /\ db_created' = db_created \cup {audit}
            /\ UNCHANGED db_touched
  /\ DbIdle

\* the tool get_audit
GetAudit(audit_id) ==
  /\ LET audit == db_get_audit(audits, audit_id) IN
       db_last' = DbResult("get_audit", audit # NoAudit, audit_id, audit)
  /\ UNCHANGED <<audits, autoinc, db_created, db_touched>>
  /\ DbIdle

\* the tool update_audit
UpdateAudit(audit_id, upd) ==
  /\ IF \/ upd.field = ""
        \/ db_get_audit(audits, audit_id) = NoAudit
        \/ upd.field \notin UpdatableFields
       THEN /\ db_last' = DbResult("update_audit", FALSE, audit_id, NoAudit)
            /\ UNCHANGED <<audits, db_touched>>
       ELSE /\ audits' = db_update_audit(audits, audit_id, upd)
            /\ db_last' = DbResult("update_audit", TRUE, audit_id,
                                   db_get_audit(db_update_audit(audits, audit_id, upd), audit_id))
            /\ db_touched' = db_touched \cup {audit_id}
  /\ UNCHANGED <<autoinc, db_created>>
  /\ DbIdle

\* the tool delete_audit
DeleteAudit(audit_id) ==
  /\ IF db_get_audit(audits, audit_id) = NoAudit
       THEN /\ db_last' = DbResult("delete_audit", FALSE, audit_id, NoAudit)
            /\ UNCHANGED <<audits, db_touched>>
       ELSE /\ audits' = db_delete_audit(audits, audit_id)
            /\ db_last' = DbResult("delete_audit", TRUE, audit_id, NoAudit)
            /\ db_touched' = db_touched \cup {audit_id}
  /\ UNCHANGED <<autoinc, db_created>>
  /\ DbIdle

DbNext ==
  \/ \E args \in CreateArgs : CreateAudit(args)
  \/ \E audit_id \in AuditIds : GetAudit(audit_id)
  \/ \E audit_id \in AuditIds, upd \in UpdateArgs : UpdateAudit(audit_id, upd)
  \/ \E audit_id \in AuditIds : DeleteAudit(audit_id)

(* ---------------------------- connection pool ------------------------- *)
\* the size of the pool in one run
MaxPool == 2

\* the number of connections sqlite3.connect makes in one run
MaxConns == 4

\* DatabaseManager.pool_size (10 in __init__), taken at MaxPool so that
\* MaxPool + 1 users at once fill the pool
pool_size == MaxPool

\* the tasks that are inside "async with self.get_connection()" at once
Users == 1..(MaxPool + 1)

\* the connections in the list connection_pool
Pooled == {connection_pool[i] : i \in 1..Len(connection_pool)}

PoolEvent(op, user, conn, how) == [op |-> op, user |-> user, conn |-> conn, how |-> how]

\* DatabaseManager.__init__: the pool starts empty
PoolInit ==
  /\ connection_pool = <<>>
  /\ holds = [u \in Users |-> 0]
  /\ closed = {}
  /\ conn_seq = 0
  /\ p_last = PoolEvent("init", 0, 0, "")

PoolIdle == UNCHANGED <<managerVars, threadVars, workerVars, dbVars>>

\* get_connection up to the yield: under the lock, the last connection of
\* the pool is popped, or a new one is made when the pool is empty;
\* sqlite3.connect may raise, and then conn stays None
P_Enter(u) ==
  /\ holds[u] = 0
  /\ IF connection_pool # <<>>
       THEN /\ holds' = [holds EXCEPT ![u] = connection_pool[Len(connection_pool)]]
            /\ connection_pool' = SubSeq(connection_pool, 1, Len(connection_pool) - 1)
            /\ p_last' = PoolEvent("enter", u, connection_pool[Len(connection_pool)], "pop")
            /\ UNCHANGED <<closed, conn_seq>>
       ELSE \E connect \in {"ok", "Error"} :
              IF connect = "ok"
                THEN /\ conn_seq < MaxConns
                     /\ conn_seq' = conn_seq + 1
                     /\ holds' = [holds EXCEPT ![u] = conn_seq + 1]
                     /\ p_last' = PoolEvent("enter", u, conn_seq + 1, "connect")
                     /\ UNCHANGED <<connection_pool, closed>>
                ELSE /\ p_last' = PoolEvent("enter_failed", u, 0, "Error")
                     /\ UNCHANGED <<connection_pool, holds, closed, conn_seq>>
  /\ PoolIdle

\* variant: the connection is appended whatever the length of the pool
P_Exit_NoLimit(u, how) ==
  /\ holds[u] # 0
  /\ connection_pool' = Append(connection_pool, holds[u])
  /\ closed' = closed
  /\ holds' = [holds EXCEPT ![u] = 0]
  /\ p_last' = PoolEvent("exit", u, holds[u], how)
  /\ UNCHANGED conn_seq
  /\ PoolIdle

\* get_connection after the yield (the finally block, reached when the
\* body ends normally and when it raises): under the lock, the connection
\* is appended when the pool has fewer than pool_size, else closed
P_Exit(u, how) ==
  /\ holds[u] # 0
  /\ IF Len(connection_pool) < pool_size
       THEN /\ connection_pool' = Append(connection_pool, holds[u])
            /\ closed' = closed
       ELSE /\ closed' = closed \cup {holds[u]}
            /\ connection_pool' = connection_pool
  /\ holds' = [holds EXCEPT ![u] = 0]
  /\ p_last' = PoolEvent("exit", u, holds[u], how)
  /\ UNCHANGED conn_seq
  /\ PoolIdle

PoolNext ==
  \/ \E u \in Users : P_Enter(u)
  \/ \E u \in Users, how \in {"normal", "exception"} : P_Exit(u, how)

(* ---------------------------- specification ---------------------------- *)
\* ServerManager.__init__ on one of the configuration files
Init ==
  /\ \E file \in ConfigFiles : config = load_config(file)
  /\ active_servers = [n \in Names |-> 0]
  /\ current_server = default_server(config)
  /\ procs = <<>>
  /\ last = Result("init", NoServer, TRUE, "", "", 0)
  /\ prev = <<"other", NoServer, TRUE>>
  /\ awaitingSwitch = FALSE
  /\ pc = [t \in Threads |-> "idle"]
  /\ t_name = [t \in Threads |-> NoServer]
  /\ t_proc = [t \in Threads |-> 0]
  /\ t_res = [t \in Threads |-> "none"]
  /\ t_op = [t \in Threads |-> "none"]
  /\ w_in = <<>>
  /\ w_pc = "input"
  /\ w_line = NoLine
  /\ w_out = <<>>
  /\ w_log = <<>>
  /\ audits = {}
  /\ autoinc = 0
  /\ db_last = DbResult("init", TRUE, 0, NoAudit)
  /\ db_created = {}
  /\ db_touched = {}
  /\ PoolInit

Next ==
  \/ \E name \in Names : StartServer(name)
  \/ \E name \in Names : StopServer(name)
  \/ \E name \in Names : SwitchServer(name)
  \/ \E name \in Names : GetServerStatus(name)
  \/ ListServers
  \/ CallTool
  \/ \E pid \in 1..MaxSpawns : ProcessExit(pid)

Spec == Init /\ [][Next]_vars

WorkerSpec == Init /\ [][WorkerNext]_vars

DbSpec == Init /\ [][DbNext]_vars

PoolSpec == Init /\ [][PoolNext]_vars

(* ---------------------------- request threads -------------------------- *)
\* app.run(threaded=True): every request runs on a thread of its own and
\* ServerManager takes no lock, so the statements of start_server of two
\* requests interleave.  pc[t] is the line of the method thread t is at.
Frame == UNCHANGED <<config, last, prev, awaitingSwitch, workerVars, dbVars, poolVars>>

SharedOnly == Frame /\ UNCHANGED <<current_server, t_op>>

\* a route enters the method op with the server name of the request
Enter(t, op, name, line) ==
  /\ pc[t] = "idle"
  /\ pc' = [pc EXCEPT ![t] = line]
  /\ t_op' = [t_op EXCEPT ![t] = op]
  /\ t_name' = [t_name EXCEPT ![t] = name]
  /\ t_proc' = [t_proc EXCEPT ![t] = 0]
  /\ t_res' = [t_res EXCEPT ![t] = "none"]
  /\ UNCHANGED <<active_servers, procs, current_server>>
  /\ Frame

Done(t, msg) ==
  /\ pc' = [pc EXCEPT ![t] = "done"]
  /\ t_res' = [t_res EXCEPT ![t] = msg]

\* the route /server/<server_name>/start enters start_server
T_CallStart(t, name) == Enter(t, "start", name, "start_169")

\* lines 169-172: the already-running check
T_Start169(t) ==
  /\ pc[t] = "start_169"
  /\ LET name == t_name[t]
         st == get_server_status(active_servers, name) IN
       IF AlreadyRunning(active_servers, name)
         THEN /\ Done(t, "already_running")
              /\ UNCHANGED active_servers
         ELSE /\ active_servers' = st.active
              /\ pc' = [pc EXCEPT ![t] = "start_174"]
              /\ UNCHANGED t_res
  /\ UNCHANGED <<procs, t_name, t_proc>>
  /\ SharedOnly

\* lines 174-189: the configuration and the command table
T_Start174(t) ==
  /\ pc[t] = "start_174"
  /\ LET name == t_name[t]
         cfg == get_server_config(name) IN
       IF cfg \in {"absent", "empty"} THEN Done(t, "not_in_configuration")
       ELSE IF cfg = "nohost" THEN Done(t, "KeyError")
       ELSE IF name \notin ServerCommandNames THEN Done(t, "unknown_server")
       ELSE /\ pc' = [pc EXCEPT ![t] = "start_192"]
            /\ UNCHANGED t_res
  /\ UNCHANGED <<active_servers, procs, t_name, t_proc>>
  /\ SharedOnly

\* lines 192-199: subprocess.Popen
T_Start192(t) ==
  /\ pc[t] = "start_192"
  /\ \E popen \in {"ok", "OSError"} :
       IF popen = "ok"
         THEN /\ Len(procs) < MaxSpawns
              /\ procs' = Popen(procs, t_name[t])
              /\ t_proc' = [t_proc EXCEPT ![t] = Len(procs) + 1]
              /\ pc' = [pc EXCEPT ![t] = "start_202"]
              /\ UNCHANGED t_res
         ELSE /\ Done(t, "OSError")
              /\ UNCHANGED <<procs, t_proc>>
  /\ UNCHANGED <<active_servers, t_name>>
  /\ SharedOnly

\* lines 202-210: the entry is stored and the call returns success
T_Start202(t) ==
  /\ pc[t] = "start_202"
  /\ active_servers' = [active_servers EXCEPT ![t_name[t]] = t_proc[t]]
  /\ Done(t, "started")
  /\ UNCHANGED <<procs, t_name, t_proc>>
  /\ SharedOnly

(* ---- get_server_status, statement by statement ---- *)
\* the route /api/server/<server_name>/status enters get_server_status
T_CallStatus(t, name) == Enter(t, "status", name, "status_143")

\* line 143: "if server_name in self.active_servers"; line 163 otherwise
T_Status143(t) ==
  /\ pc[t] = "status_143"
  /\ IF active_servers[t_name[t]] = 0
       THEN Done(t, "not_running")
       ELSE pc' = [pc EXCEPT ![t] = "status_144"] /\ UNCHANGED t_res
  /\ UNCHANGED <<active_servers, procs, t_name, t_proc>>
  /\ SharedOnly

\* lines 144-145: process_info = self.active_servers[server_name]; the
\* subscript raises KeyError when the entry is gone, and nothing in
\* get_server_status or in its route catches it
T_Status144(t) ==
  /\ pc[t] = "status_144"
  /\ IF active_servers[t_name[t]] = 0
       THEN Done(t, "KeyError") /\ UNCHANGED t_proc
       ELSE /\ t_proc' = [t_proc EXCEPT ![t] = active_servers[t_name[t]]]
            /\ pc' = [pc EXCEPT ![t] = "status_147"]
            /\ UNCHANGED t_res
  /\ UNCHANGED <<active_servers, procs, t_name>>
  /\ SharedOnly

\* line 147: process.poll()
T_Status147(t) ==
  /\ pc[t] = "status_147"
  /\ IF Alive(t_proc[t])
       THEN Done(t, "running")
       ELSE pc' = [pc EXCEPT ![t] = "status_155"] /\ UNCHANGED t_res
  /\ UNCHANGED <<active_servers, procs, t_name, t_proc>>
  /\ SharedOnly

\* line 155: del self.active_servers[server_name]; KeyError when the
\* entry is gone
T_Status155(t) ==
  /\ pc[t] = "status_155"
  /\ IF active_servers[t_name[t]] = 0
       THEN Done(t, "KeyError") /\ UNCHANGED active_servers
       ELSE /\ active_servers' = [active_servers EXCEPT ![t_name[t]] = 0]
            /\ Done(t, "not_running")
  /\ UNCHANGED <<procs, t_name, t_proc>>
  /\ SharedOnly

(* ---- stop_server, statement by statement ---- *)
\* the route /server/<server_name>/stop enters stop_server
T_CallStop(t, name) == Enter(t, "stop", name, "stop_220")

\* lines 220-221: "if server_name not in self.active_servers"
T_Stop220(t) ==
  /\ pc[t] = "stop_220"
  /\ IF active_servers[t_name[t]] = 0
       THEN Done(t, "not_running")
       ELSE pc' = [pc EXCEPT ![t] = "stop_224"] /\ UNCHANGED t_res
  /\ UNCHANGED <<active_servers, procs, t_name, t_proc>>
  /\ SharedOnly

\* lines 224-225: process_info = self.active_servers[server_name]; a
\* KeyError is caught by the except branch of lines 242-244
T_Stop224(t) ==
  /\ pc[t] = "stop_224"
  /\ IF active_servers[t_name[t]] = 0
       THEN Done(t, "failed_to_stop") /\ UNCHANGED t_proc
       ELSE /\ t_proc' = [t_proc EXCEPT ![t] = active_servers[t_name[t]]]
            /\ pc' = [pc EXCEPT ![t] = "stop_228"]
            /\ UNCHANGED t_res
  /\ UNCHANGED <<active_servers, procs, t_name>>
  /\ SharedOnly

\* line 228: process.terminate(); it may raise (the except branch)
T_Stop228(t) ==
  /\ pc[t] = "stop_228"
  /\ \E terminate \in {"ok", "OSError"} :
       IF terminate = "ok"
         THEN pc' = [pc EXCEPT ![t] = "stop_232"] /\ UNCHANGED t_res
         ELSE Done(t, "failed_to_stop")
  /\ UNCHANGED <<active_servers, procs, t_name, t_proc>>
  /\ SharedOnly

\* variant: on TimeoutExpired the entry is deleted without kill() and wait()
T_Stop232_NoKill(t) ==
  /\ pc[t] = "stop_232"
  /\ \E waited \in {"exited", "TimeoutExpired"} :
       IF waited = "exited"
         THEN /\ procs' = Exited(procs, t_proc[t], SIGTERM)
              /\ pc' = [pc EXCEPT ![t] = "stop_238"]
         ELSE /\ Alive(t_proc[t])
              /\ procs' = procs
              /\ pc' = [pc EXCEPT ![t] = "stop_238"]
  /\ UNCHANGED <<active_servers, t_name, t_proc, t_res>>
  /\ SharedOnly

\* lines 231-233: process.wait(timeout=5): the process ends within the
\* 5 seconds, or TimeoutExpired is raised while it is still running
T_Stop232(t) ==
  /\ pc[t] = "stop_232"
  /\ \E waited \in {"exited", "TimeoutExpired"} :
       IF waited = "exited"
         THEN /\ procs' = Exited(procs, t_proc[t], SIGTERM)
              /\ pc' = [pc EXCEPT ![t] = "stop_238"]
         ELSE /\ Alive(t_proc[t])
              /\ procs' = procs
              /\ pc' = [pc EXCEPT ![t] = "stop_235"]
  /\ UNCHANGED <<active_servers, t_name, t_proc, t_res>>
  /\ SharedOnly

\* line 235: process.kill(); SIGKILL ends the process
T_Stop235(t) ==
  /\ pc[t] = "stop_235"
  /\ procs' = Exited(procs, t_proc[t], SIGKILL)
  /\ pc' = [pc EXCEPT ![t] = "stop_236"]
  /\ UNCHANGED <<active_servers, t_name, t_proc, t_res>>
  /\ SharedOnly

\* line 236: process.wait() without a timeout returns once the process
\* has ended
T_Stop236(t) ==
  /\ pc[t] = "stop_236"
  /\ ~Alive(t_proc[t])
  /\ pc' = [pc EXCEPT ![t] = "stop_238"]
  /\ UNCHANGED <<active_servers, procs, t_name, t_proc, t_res>>
  /\ SharedOnly

\* lines 238-240: del self.active_servers[server_name] and the success
\* return; a KeyError is caught by the except branch
T_Stop238(t) ==
  /\ pc[t] = "stop_238"
  /\ IF active_servers[t_name[t]] = 0
       THEN Done(t, "failed_to_stop") /\ UNCHANGED active_servers
       ELSE /\ active_servers' = [active_servers EXCEPT ![t_name[t]] = 0]
            /\ Done(t, "stopped")
  /\ UNCHANGED <<procs, t_name, t_proc>>
  /\ SharedOnly

\* the lines of stop_server between terminate() and the del
MidStop == {"stop_232", "stop_235", "stop_236", "stop_238"}

(* ---- switch_server, statement by statement ---- *)
\* the route /server/<server_name>/switch enters switch_server
T_CallSwitch(t, name) == Enter(t, "switch", name, "switch_250")

\* lines 250-251: the name is looked up in the configuration
T_Switch250(t) ==
  /\ pc[t] = "switch_250"
  /\ IF Configured(t_name[t])
       THEN pc' = [pc EXCEPT ![t] = "switch_254"] /\ UNCHANGED t_res
       ELSE Done(t, "not_found")
  /\ UNCHANGED <<active_servers, procs, t_name, t_proc>>
  /\ SharedOnly

\* lines 254-257: "if server_name not in self.active_servers" and the
\* start_server call it guards (the call is taken as one step)
T_Switch254(t) ==
  /\ pc[t] = "switch_254"
  /\ IF active_servers[t_name[t]] # 0
       THEN /\ pc' = [pc EXCEPT ![t] = "switch_259"]
            /\ UNCHANGED <<active_servers, procs, t_res>>
       ELSE \E popen \in {"ok", "OSError"} :
              LET r == start_server(active_servers, t_name[t], popen) IN
                /\ Len(r.procs) <= MaxSpawns
                /\ active_servers' = r.active
                /\ procs' = r.procs
                /\ IF r.ok
                     THEN pc' = [pc EXCEPT ![t] = "switch_259"] /\ UNCHANGED t_res
                     ELSE Done(t, "failed_to_start")
  /\ UNCHANGED <<t_name, t_proc, current_server, t_op>>
  /\ Frame

\* lines 259-261: self.current_server = server_name and the success return
T_Switch259(t) ==
  /\ pc[t] = "switch_259"
  /\ current_server' = t_name[t]
  /\ Done(t, "switched")
  /\ UNCHANGED <<active_servers, procs, t_name, t_proc, t_op>>
  /\ Frame

(* ---- call_tool, statement by statement ---- *)
\* a route calls mcp_client.call_tool; lines 275-283: current_server is
\* read and looked up in active_servers
T_CallTool(t) ==
  /\ pc[t] = "idle"
  /\ t_op' = [t_op EXCEPT ![t] = "call_tool"]
  /\ t_name' = [t_name EXCEPT ![t] = current_server]
  /\ t_proc' = [t_proc EXCEPT ![t] = 0]
  /\ IF current_server \notin Names \/ active_servers[current_server] = 0
       THEN Done(t, "not_running")
       ELSE pc' = [pc EXCEPT ![t] = "call_314"] /\ t_res' = [t_res EXCEPT ![t] = "none"]
  /\ UNCHANGED <<active_servers, procs, current_server>>
  /\ Frame

\* lines 314-353: subprocess.run of the temporary script returns (exit
\* status 0 or not), times out after 30 s or raises
T_Call314(t) ==
  /\ pc[t] = "call_314"
  /\ \E run \in {"exit0", "nonzero", "timeout", "exception"} :
       Done(t, CASE run = "exit0" -> "called_successfully"
                 [] run = "nonzero" -> "tool_execution_failed"
                 [] run = "timeout" -> "timed_out"
                 [] OTHER -> "exception")
  /\ UNCHANGED <<active_servers, procs, t_name, t_proc>>
  /\ SharedOnly

\* the response is sent and the locals of the call are gone; the thread
\* serves the next request
T_Return(t) ==
  /\ pc[t] = "done"
  /\ pc' = [pc EXCEPT ![t] = "idle"]
  /\ t_op' = [t_op EXCEPT ![t] = "none"]
  /\ t_name' = [t_name EXCEPT ![t] = NoServer]
  /\ t_proc' = [t_proc EXCEPT ![t] = 0]
  /\ t_res' = [t_res EXCEPT ![t] = "none"]
  /\ UNCHANGED <<active_servers, procs, current_server>>
  /\ Frame

ConcNext ==
  \/ \E t \in Threads, name \in Names : T_CallStart(t, name)
  \/ \E t \in Threads : T_Start169(t)
  \/ \E t \in Threads : T_Start174(t)
  \/ \E t \in Threads : T_Start192(t)
  \/ \E t \in Threads : T_Start202(t)
  \/ \E t \in Threads, name \in Names : T_CallStatus(t, name)
  \/ \E t \in Threads : T_Status143(t)
  \/ \E t \in Threads : T_Status144(t)
  \/ \E t \in Threads : T_Status147(t)
  \/ \E t \in Threads : T_Status155(t)
  \/ \E t \in Threads, name \in Names : T_CallStop(t, name)
  \/ \E t \in Threads : T_Stop220(t)
  \/ \E t \in Threads : T_Stop224(t)
  \/ \E t \in Threads : T_Stop228(t)
  \/ \E t \in Threads : T_Stop232(t)
  \/ \E t \in Threads : T_Stop235(t)
  \/ \E t \in Threads : T_Stop236(t)
  \/ \E t \in Threads : T_Stop238(t)
  \/ \E t \in Threads, name \in Names : T_CallSwitch(t, name)
  \/ \E t \in Threads : T_Switch250(t)
  \/ \E t \in Threads : T_Switch254(t)
  \/ \E t \in Threads : T_Switch259(t)
  \/ \E t \in Threads : T_CallTool(t)
  \/ \E t \in Threads : T_Call314(t)
  \/ \E t \in Threads : T_Return(t)
  \/ \E pid \in 1..MaxSpawns : ProcessExit(pid)

ConcSpec == Init /\ [][ConcNext]_vars

\* the statements of stop_server of thread t
StopSteps(t) ==
  \/ T_Stop220(t)
  \/ T_Stop224(t)
  \/ T_Stop228(t)
  \/ T_Stop232(t)
  \/ T_Stop235(t)
  \/ T_Stop236(t)
  \/ T_Stop238(t)

\* main: "if server_manager.current_server: start_server(current_server)"
\* before app.run; the default server is started when its entry has host
\* and port, its name is in the command table and Popen succeeds
MainStarted(cfg, popen) ==
  /\ popen = "ok"
  /\ cfg.servers[default_server(cfg)] = "full"
  /\ default_server(cfg) \in ServerCommandNames

\* the state in which app.run begins to serve requests
StopInit ==
  /\ \E file \in ConfigFiles : config = load_config(file)
  /\ \E popen \in {"ok", "OSError"} :
       /\ procs = IF MainStarted(config, popen)
                    THEN Popen(<<>>, default_server(config)) ELSE <<>>
       /\ active_servers =
            [n \in Names |->
               IF MainStarted(config, popen) /\ n = default_server(config) THEN 1 ELSE 0]
  /\ current_server = default_server(config)
  /\ last = Result("init", NoServer, TRUE, "", "", 0)
  /\ prev = <<"other", NoServer, TRUE>>
  /\ awaitingSwitch = FALSE
  /\ pc = [t \in Threads |-> "idle"]
  /\ t_name = [t \in Threads |-> NoServer]
  /\ t_proc = [t \in Threads |-> 0]
  /\ t_res = [t \in Threads |-> "none"]
  /\ t_op = [t \in Threads |-> "none"]
  /\ w_in = <<>>
  /\ w_pc = "input"
  /\ w_line = NoLine
  /\ w_out = <<>>
  /\ w_log = <<>>
  /\ audits = {}
  /\ autoinc = 0
  /\ db_last = DbResult("init", TRUE, 0, NoAudit)
  /\ db_created = {}
  /\ db_touched = {}
  /\ PoolInit

\* request threads that stop workers
StopNext ==
  \/ \E t \in Threads, name \in Names : T_CallStop(t, name)
  \/ \E t \in Threads : StopSteps(t)
  \/ \E t \in Threads : T_Return(t)
  \/ \E pid \in 1..MaxSpawns : ProcessExit(pid)

\* a thread inside stop_server keeps running: terminate() and kill()
\* return, wait(timeout=5) returns or raises within 5 seconds, and wait()
\* returns because SIGKILL cannot be blocked
StopSpec ==
  /\ StopInit /\ [][StopNext]_vars
  /\ \A t \in Threads : WF_vars(StopSteps(t))

(* ======================================================================= *)
(* Properties                                                              *)
(* ======================================================================= *)
\* the worker registered under name is not running: no entry, or an entry
\* whose process has exited
NotRunning(name) == active_servers[name] = 0 \/ ~Alive(active_servers[name])

\* the processes spawned so far for name
SpawnedFor(name) == {p \in 1..Len(procs) : procs[p].name = name}

\* the messages with which start_server reports a failure
StartFailures == {"already_running", "not_in_configuration", "KeyError",
                  "unknown_server", "OSError"}

\* C1: in every reachable state, a set current_server names a worker that
\* is present in active_servers.
C1_ActivePointerRegistered ==
  current_server # NoServer =>
    (current_server \in Names /\ active_servers[current_server] # 0)

\* C2: two concurrent start_server(name) calls for a never-started name
\* spawn one process between them: once both have returned, at most one
\* process exists for the name, they have not both succeeded, and the
\* entry refers to the process that was spawned.
C2_NoDoubleSpawn ==
  \A name \in Names :
    ( /\ pc[1] = "done" /\ pc[2] = "done"
      /\ t_name[1] = name /\ t_name[2] = name
      /\ t_res[1] \in {"started", "already_running"}
      /\ t_res[2] \in {"started", "already_running"}
      /\ SpawnedFor(name) \subseteq {t_proc[1], t_proc[2]} )
    => ( /\ Cardinality(SpawnedFor(name)) = 1
         /\ ~(t_res[1] = "started" /\ t_res[2] = "started")
         /\ active_servers[name] \in SpawnedFor(name) )

\* C3: a start_server(name) that directly follows a successful
\* start_server(name) whose process is still alive fails as already
\* running, spawns nothing and leaves the entry and its pid as they were.
C3_SecondStartAlreadyRunning ==
  [][ \A name \in Names :
        ( /\ last.op = "start" /\ last.name = name /\ last.ok
          /\ Alive(last.pid)
          /\ StartServer(name) )
        => ( /\ ~last'.ok /\ last'.msg = "already_running"
             /\ procs' = procs
             /\ active_servers' = active_servers
             /\ active_servers'[name] = last.pid ) ]_vars

C3_Witness ==
  /\ prev = <<"start", last.name, TRUE>>
  /\ last.op = "start" /\ last.msg = "already_running"
  /\ Alive(active_servers[last.name])

\* C4: a successful stop_server(name) of the worker current_server names
\* clears current_server, and a call_tool that follows fails.
C4_StopClearsActive ==
  [][ /\ \A name \in Names :
           (current_server = name /\ StopServer(name) /\ last'.ok)
           => current_server' = NoServer
      /\ ( /\ last.op = "stop" /\ last.ok /\ last.name = current_server
           /\ CallTool )
         => ~last'.ok ]_vars

\* C5: once the active worker has been stopped, no call_tool succeeds
\* until a switch_server has succeeded.
C5_NoToolSuccessBeforeSwitch ==
  awaitingSwitch => ~(last.op = "call_tool" /\ last.ok)

\* C6: a successful switch_server(name) on a configured worker that is not
\* running leaves it registered with a live process and current.
C6_SwitchLeavesRunning ==
  [][ \A name \in Names :
        ( /\ Configured(name) /\ NotRunning(name)
          /\ SwitchServer(name) /\ last'.ok )
        => ( /\ current_server' = name
             /\ active_servers'[name] # 0
             /\ procs'[active_servers'[name]].state = "alive" ) ]_vars

\* C7: switch_server(name) on a name absent from the configured servers
\* fails as not found, spawns nothing and leaves current_server and
\* active_servers unchanged.
C7_SwitchUnknownRejected ==
  [][ \A name \in Names :
        (config.servers[name] = "absent" /\ SwitchServer(name))
        => ( /\ ~last'.ok /\ last'.msg = "not_found"
             /\ UNCHANGED <<current_server, active_servers, procs>> ) ]_vars

C7_Witness ==
  /\ last.op = "switch" /\ ~last.ok /\ last.msg = "not_found"
  /\ config.servers[last.name] = "absent"
  /\ \E n \in Names : active_servers[n] # 0

\* C8: when switch_server(name) has to start the target and the start
\* fails, it fails with the failure of start_server and current_server
\* keeps its value.
C8_SwitchStartFailureKeepsPointer ==
  [][ \A name \in Names :
        ( /\ Configured(name) /\ active_servers[name] = 0
          /\ SwitchServer(name) /\ ~last'.ok )
        => ( /\ last'.msg = "failed_to_start"
             /\ \E popen \in {"ok", "OSError"} :
                  LET r == start_server(active_servers, name, popen) IN
                    ~r.ok /\ last'.cause = r.msg
             /\ current_server' = current_server ) ]_vars

C8_Witness ==
  /\ last.op = "switch" /\ ~last.ok /\ last.msg = "failed_to_start"
  /\ last.cause \in StartFailures
  /\ current_server # last.name
  /\ active_servers[current_server] # 0

\* C9: start_server(name) on a name absent from the configured servers
\* fails as not configured, spawns nothing and leaves active_servers and
\* current_server unchanged.
C9_StartUnknownRejected ==
  [][ \A name \in Names :
        (config.servers[name] = "absent" /\ StartServer(name))
        => ( /\ ~last'.ok /\ last'.msg = "not_in_configuration"
             /\ UNCHANGED <<active_servers, current_server, procs>> ) ]_vars

C9_Witness ==
  /\ last.op = "start" /\ ~last.ok /\ last.msg = "not_in_configuration"
  /\ config.servers[last.name] = "absent"
  /\ last.name \in ServerCommandNames
  /\ \E n \in Names : active_servers[n] # 0

\* C10: for every configured name, whether or not the command table has
\* it, start_server(name) on a not-running worker succeeds unless the
\* spawn itself fails, and a get_server_status(name) that directly follows
\* reports running with the pid of the spawned process.  Stated for the
\* names whose configuration entry carries host and port, the entries
\* with which the command table can be built.
C10_EveryConfiguredNameStarts ==
  [][ /\ \A name \in Names :
           ( /\ get_server_config(name) = "full" /\ NotRunning(name)
             /\ StartServer(name) /\ last'.msg # "OSError" )
           => (last'.ok /\ procs'[last'.pid].state = "alive" /\ active_servers'[name] = last'.pid)
      /\ \A name \in Names :
           ( /\ last.op = "start" /\ last.name = name /\ last.ok /\ Alive(last.pid)
             /\ GetServerStatus(name) )
           => (last'.ok /\ last'.pid = last.pid) ]_vars

\* C11: when the process of a registered worker has ended on its own, the
\* next get_server_status(name) reports not running with the exit code of
\* the process and deletes the entry; while there is no entry every
\* get_server_status(name) reports not running, and an entry appears again
\* only by a successful start_server or switch_server of that name.
C11_LazyReap ==
  [][ \A name \in Names :
        /\ ( /\ active_servers[name] # 0 /\ ~Alive(active_servers[name])
             /\ GetServerStatus(name) )
           => ( /\ ~last'.ok
                /\ last'.exit_code = procs[active_servers[name]].code
                /\ last'.exit_code \in ExitCodes
                /\ active_servers'[name] = 0 )
        /\ (active_servers[name] = 0 /\ GetServerStatus(name))
           => (~last'.ok /\ last'.exit_code = NoCode /\ active_servers'[name] = 0)
        /\ (active_servers[name] = 0 /\ active_servers'[name] # 0)
           => (last'.op \in {"start", "switch"} /\ last'.ok /\ last'.name = name) ]_vars

C11_Witness ==
  /\ last.op = "status" /\ ~last.ok
  /\ last.exit_code \in ExitCodes
  /\ active_servers[last.name] = 0
  /\ \E pid \in 1..Len(procs) : procs[pid].name = last.name /\ procs[pid].code = last.exit_code

\* C12: call_tool does not return success when no worker is active or
\* when the process of the worker current_server names has ended, also
\* while the entry of the ended worker is still in active_servers.
C12_NoSuccessWithoutLiveWorker ==
  [][ ( /\ \/ current_server \notin Names
           \/ NotRunning(current_server)
        /\ CallTool )
      => ~last'.ok ]_vars

\* C13: a successful call_tool returns the result payload of a response
\* envelope that the worker has printed and whose id is the id of the
\* request.
C13_SuccessIsWorkerResponse ==
  (last.op = "call_tool" /\ last.ok)
  => \E i \in 1..Len(w_out) :
       /\ w_out[i].kind = "result"
       /\ w_out[i].id = RequestId
       /\ w_out[i].payload.type = last.msg

\* C14: a call_tool that passes its precondition check and during which
\* the worker prints no response envelope does not return success.
C14_UnansweredCallFails ==
  [][ ( /\ current_server \in Names
        /\ active_servers[current_server] # 0
        /\ CallTool
        /\ w_out' = w_out )
      => ~last'.ok ]_vars

\* C15 as claimed: on return of stop_server(name) on a registered worker
\* the name is absent from active_servers and the process has exited,
\* whichever path the stop took.
C15_StopAlwaysUnregisters ==
  [][ \A name \in Names :
        (active_servers[name] # 0 /\ StopServer(name))
        => ( /\ active_servers'[name] = 0
             /\ procs'[active_servers[name]].state = "exited" ) ]_vars

\* C15 amended: when stop_server(name) on a registered worker returns
\* success (graceful exit or forced kill) the name is absent from
\* active_servers and the process has exited; when an error is raised
\* while terminating it returns failure and the entry stays registered.
C15_StopUnregistersOnSuccess ==
  [][ \A name \in Names :
        (active_servers[name] # 0 /\ StopServer(name))
        => IF last'.ok
             THEN /\ last'.cause \in {"graceful", "forced"}
                  /\ active_servers'[name] = 0
                  /\ procs'[active_servers[name]].state = "exited"
             ELSE /\ last'.msg = "failed_to_stop"
                  /\ active_servers'[name] = active_servers[name] ]_vars

C15_Witness ==
  /\ last.op = "stop" /\ last.ok /\ last.cause = "forced"
  /\ active_servers[last.name] = 0
  /\ procs[last.pid].state = "exited" /\ procs[last.pid].code = SIGKILL

\* C16: call_tool leaves active_servers and current_server as they were,
\* whatever it returns.
C16_CallToolFrame ==
  [][ CallTool => UNCHANGED <<active_servers, current_server>> ]_vars

C16_Witness ==
  /\ last.op = "call_tool" /\ last.msg = "tool_execution_failed"
  /\ last.pid # 0
  /\ active_servers[current_server] = last.pid

\* C17 as claimed: list_servers leaves active_servers, current_server and
\* the configuration unchanged.
C17_ListIsPureRead ==
  [][ ListServers => UNCHANGED <<active_servers, current_server, config>> ]_vars

\* C17 amended: list_servers leaves current_server and the configuration
\* unchanged and changes active_servers only by the lazy reap of
\* get_server_status: the entry of every worker whose process has ended is
\* deleted, every other entry is kept as it is.
C17_ListOnlyReaps ==
  [][ ListServers =>
        /\ UNCHANGED <<current_server, config, procs>>
        /\ \A name \in Names :
             active_servers'[name] =
               IF active_servers[name] # 0 /\ ~Alive(active_servers[name])
                 THEN 0 ELSE active_servers[name] ]_vars

C17_Witness ==
  \E name \in Names :
    /\ prev = <<"start", name, TRUE>>
    /\ last.op = "list"
    /\ active_servers[name] = 0
    /\ \E other \in Names : active_servers[other] # 0

\* C18: current_server is absent when ServerManager is constructed; it
\* becomes set only by a successful start or switch, and once set it
\* changes only by a successful stop of the worker it names.
C18_PointerLifecycle ==
  /\ current_server = NoServer
  /\ [][ current_server' # current_server =>
           IF current_server = NoServer
             THEN last'.op \in {"start", "switch"} /\ last'.ok /\ last'.name = current_server'
             ELSE last'.op = "stop" /\ last'.ok /\ last'.name = current_server ]_vars

\* C19: every request object read by run_stdio is answered by exactly one
\* envelope, printed before the next line is read, whose id is the id of
\* the request; the envelope carries 'result' for tools/call and for
\* initialize (the descriptor with tools, resources and prompts) and
\* 'error' for any other method.  Stated for the requests that follow the
\* request envelope (params is an object).
C19_OneCorrelatedResponse ==
  /\ Len(w_out) = Cardinality({i \in 1..Len(w_log) : w_log[i].response # NoResponse})
  /\ \A i \in 1..Len(w_log) :
       LET line == w_log[i].line
           response == w_log[i].response
       IN (line.kind = "object" /\ line.params # "null")
          => /\ response.id = line.id
             /\ response.kind = IF line.method \in {"tools/call", "initialize"}
                                  THEN "result" ELSE "error"
             /\ line.method = "initialize"
                => {"tools", "resources", "prompts"} \subseteq response.payload.body

\* C20: after create_audit has returned an audit, get_audit of its id
\* succeeds and returns that audit (the id, the title, description and
\* assigned_auditor given to create_audit and the status the audit was
\* created with) as long as the audit has not been updated or deleted; an
\* audit that get_audit returns has the id that was asked for.
C20_CreateThenGet ==
  [][ /\ \A audit_id \in AuditIds :
           GetAudit(audit_id) =>
             /\ db_last'.ok => db_last'.audit.id = audit_id
             /\ \A audit \in db_created :
                  (audit.id = audit_id /\ audit_id \notin db_touched)
                  => (db_last'.ok /\ db_last'.audit = audit)
      /\ \A args \in CreateArgs :
           (CreateAudit(args) /\ db_last'.ok) =>
             /\ db_last'.audit.id = db_last'.audit_id
             /\ db_last'.audit.title = args.title
             /\ db_last'.audit.description = args.description
             /\ db_last'.audit.assigned_auditor = args.assigned_auditor
             /\ db_last'.audit.status =
                  IF args.status \in AuditStatusValues THEN args.status ELSE "open" ]_vars

C20_Witness ==
  /\ db_last.op = "get_audit" /\ db_last.ok
  /\ db_last.audit_id = 2
  /\ db_last.audit \in db_created
  /\ db_touched = {1}

\* C22: when the Popen call of start_server(name) raises, start_server
\* returns failure with the error, no process is added, active_servers
\* holds no entry for name and current_server keeps its value.
C22_SpawnErrorLeavesStopped ==
  [][ \A name \in Names :
        (StartServer(name) /\ last'.msg = "OSError")
        => ( /\ ~last'.ok
             /\ procs' = procs
             /\ active_servers'[name] = 0
             /\ \A other \in Names \ {name} : active_servers'[other] = active_servers[other]
             /\ current_server' = current_server ) ]_vars

C22_Witness ==
  /\ last.op = "start" /\ ~last.ok /\ last.msg = "OSError"
  /\ active_servers[last.name] = 0
  /\ \E pid \in 1..Len(procs) : procs[pid].name = last.name /\ ~Alive(pid)
  /\ \E other \in Names : active_servers[other] # 0

C29_OnlySwitchMovesPointer ==
  [][ /\ (current_server' # current_server)
           => (last'.op = "switch" /\ last'.ok /\ last'.name = current_server')
      /\ \A name \in Names :
           (StartServer(name) \/ StopServer(name) \/ GetServerStatus(name))
           => current_server' = current_server
      /\ (ListServers \/ CallTool) => current_server' = current_server
      /\ \A name \in Names :
           (SwitchServer(name) /\ ~last'.ok) => current_server' = current_server ]_vars

C29_Witness ==
  /\ last.op = "stop" /\ last.ok
  /\ last.name = current_server
  /\ active_servers[current_server] = 0

\* C26: whenever start_server has accepted a start, the default server
\* name of the loaded configuration (the value current_server is
\* constructed with) is a key of the configured servers.
C26_DefaultServerConfigured ==
  (last.op = "start" /\ last.ok) => Configured(default_server(config))

\* C23: switch_server(name) does not return success, with current_server
\* set to name, while a stop_server(name) of another caller has already
\* requested the termination of the worker and has not yet returned.
C23_SwitchNeverSeesMidStop ==
  [][ \A t \in Threads :
        (T_Switch259(t) /\ t_res'[t] = "switched" /\ current_server' = t_name[t])
        => ~ \E other \in Threads \ {t} :
               pc[other] \in MidStop /\ t_name[other] = t_name[t] ]_vars

\* C24: a get_server_status that runs while other callers stop, start or
\* query the same name returns a status, running or not running, and
\* never ends in an error.
C24_StatusAlwaysAnswers ==
  \A t \in Threads :
    (pc[t] = "done" /\ t_op[t] = "status") => t_res[t] \in {"running", "not_running"}

\* C25: no two call_tool invocations against the same worker are in
\* flight at the same time.
C25_OneCallInFlight ==
  \A t \in Threads : \A other \in Threads \ {t} :
    ~ ( /\ pc[t] = "call_314" /\ pc[other] = "call_314"
        /\ t_name[t] = t_name[other] )

\* C28: every process that start_server has spawned and that has not
\* exited is the process active_servers refers to under its name (a
\* process between its Popen and the store of its entry, inside the
\* start_server call that spawned it, is not yet counted).
C28_NoOrphanedWorker ==
  \A pid \in 1..Len(procs) :
    Alive(pid) =>
      \/ active_servers[procs[pid].name] = pid
      \/ \E t \in Threads : pc[t] = "start_202" /\ t_proc[t] = pid

\* the process thread t took from the registry has ended
Reaped(t) == t_proc[t] # 0 /\ ~Alive(t_proc[t])

\* the order of the statements of stop_server: terminate() is requested
\* before anything else is done to the process, kill() is issued only
\* after wait(timeout=5) has timed out with the process still running,
\* and the entry is deleted only once the process has ended
StopOrder ==
  \A t \in Threads :
    /\ (pc'[t] = "stop_232" /\ pc[t] # "stop_232") => pc[t] = "stop_228"
    /\ (pc'[t] = "stop_235" /\ pc[t] # "stop_235")
         => (pc[t] = "stop_232" /\ Alive(t_proc[t]))
    /\ (pc'[t] = "stop_236" /\ pc[t] # "stop_236") => pc[t] = "stop_235"
    /\ (pc[t] = "stop_232" /\ pc'[t] = "stop_238") => ~Alive(t_proc[t])'
    /\ (T_Stop238(t) /\ active_servers' # active_servers) => ~Alive(t_proc[t])

\* C21 as claimed: stop_server on a registered worker follows the order
\* terminate, bounded wait, kill only on timeout, delete only after the
\* exit, and every such call returns with the process ended and reaped.
C21_TwoPhaseStopAlwaysReaps ==
  /\ [][StopOrder]_vars
  /\ \A t \in Threads :
       (pc[t] = "stop_228") ~> (pc[t] = "done" /\ Reaped(t))

\* C21 amended: stop_server on a registered worker follows the order
\* terminate, bounded wait, kill only on timeout, delete only after the
\* exit; every call returns; once terminate() has returned without an
\* error the call returns with the process ended and reaped, and a call
\* that returns success leaves the process ended.  (When terminate()
\* raises, the call returns failure at once.)
C21_TwoPhaseStop ==
  /\ [][StopOrder]_vars
  /\ [] \A t \in Threads :
          (pc[t] = "done" /\ t_op[t] = "stop" /\ t_res[t] = "stopped")
          => Reaped(t)
  /\ \A t \in Threads : (pc[t] = "stop_220") ~> (pc[t] = "done")
  /\ \A t \in Threads :
       (pc[t] = "stop_232") ~> (pc[t] = "done" /\ Reaped(t))

C21_Witness ==
  \E t \in Threads :
    /\ pc[t] = "done" /\ t_op[t] = "stop" /\ t_res[t] = "stopped"
    /\ procs[t_proc[t]].code = SIGKILL
    /\ active_servers[t_name[t]] = 0

\* C30: under every interleaving of the users of get_connection, the
\* idle pool never holds more than pool_size connections, no connection
\* is held by two users or held while it is in the pool or closed, and a
\* connection whose user leaves the context, normally or by an exception,
\* is then either in the pool or closed.
C30_PoolDiscipline ==
  /\ [] ( /\ Len(connection_pool) <= pool_size
          /\ Cardinality(Pooled) = Len(connection_pool)
          /\ \A u \in Users : \A v \in Users \ {u} :
               holds[u] # 0 => holds[u] # holds[v]
          /\ \A u \in Users :
               holds[u] # 0 => (holds[u] \notin Pooled /\ holds[u] \notin closed)
          /\ Pooled \cap closed = {} )
  /\ [][ \A u \in Users :
           (holds[u] # 0 /\ holds'[u] # holds[u])
           => ( /\ holds'[u] = 0
                /\ (holds[u] \in Pooled') # (holds[u] \in closed') ) ]_vars

C30_Witness ==
  /\ p_last.op = "exit" /\ p_last.how = "exception"
  /\ p_last.conn \in closed
  /\ Len(connection_pool) = pool_size
  /\ conn_seq = pool_size + 1

====
